---- MODULE Spec2Model ----
(***************************************************************************)
(* Store monitoring service: the uptime/downtime estimator                 *)
(* (calculate_uptime_downtime), the report job (trigger_report,            *)
(* generate_report, get_report) and the CSV merge (update_db).             *)
(*                                                                         *)
(* Time is counted in whole seconds since a Monday 00:00:00 UTC.  A        *)
(* timezone-aware datetime is a record [utc, off]: the instant and the UTC *)
(* offset of its tzinfo.  Comparison and subtraction of aware datetimes    *)
(* use the instant; .time() and .weekday() use the wall clock utc + off.   *)
(*                                                                         *)
(* The rows fetch_store_data returns are taken to carry naive UTC          *)
(* datetimes, as its signature and convert_utc_to_local expect; the tables *)
(* are sequences read in heap order.                                       *)
(***************************************************************************)
EXTENDS Integers, Sequences, FiniteSets, TLC

VARIABLES
    menu_hours,        \* table menu_hours: sequence of rows, in heap order
    store_tz,          \* table store_tz
    store_data,        \* table store_data
    reports,           \* table reports
    calc,              \* frame of one calculate_uptime_downtime call
    jobs,              \* per report id: the background generate_report task
    files,             \* report files written under reports/
    returned,          \* report ids trigger_report has returned to a caller
    answers,           \* per report id: the last answer of get_report
    store_status_csv,  \* content of "store status.csv"
    tmp_store_data,    \* temporary table tmp_store_data of the session
    init_db_pc         \* how the call of init_db at startup ended, if it ran

vars == <<menu_hours, store_tz, store_data, reports, calc, jobs, files,
          returned, answers, store_status_csv, tmp_store_data, init_db_pc>>

dbVars == <<menu_hours, store_tz, store_data, reports>>
jobVars == <<jobs, files, returned, answers>>
csvVars == <<store_status_csv, tmp_store_data, init_db_pc>>

-----------------------------------------------------------------------------
(* Bounds of the model *)

MaxObs == 2        \* rows of store_data drawn in Init
MaxHalfHours == 4  \* longest query window, in half hours

-----------------------------------------------------------------------------
(* Program constants *)

Delta == 3600                 \* timedelta(hours=1)
AllDayOpen == 0               \* time(0, 0)
AllDayClose == 86399          \* time(23, 59, 59)
DayWindowStart == 32400       \* "09:00:00"
DayWindowEnd == 75600         \* "21:00:00"
MinutesDivisor == 60          \* total_seconds() / 60, minutes / 60
OneWeek == 604800             \* timedelta(weeks=1)

DaySeconds == 24 * 3600
HalfHour == 30 * 60

\* The instant of weekday d (0 = Monday), hour h, minute m of the second week.
At(d, h, m) == ((7 + d) * 24 + h) * 3600 + m * 60

-----------------------------------------------------------------------------
(* utils.py *)

KnownZones == {"UTC", "America/Chicago", "Asia/Kolkata"}

\* Chicago leaves standard time on the Sunday of the modelled week, 08:00 UTC.
ChicagoDstStart == At(6, 8, 0)

\* pytz.timezone(tz).utcoffset at the instant t
UtcOffset(tz, t) ==
    CASE tz = "UTC" -> 0
      [] tz = "Asia/Kolkata" -> 5 * 3600 + 30 * 60
      [] tz = "America/Chicago" ->
            IF t < ChicagoDstStart THEN 0 - 6 * 3600 ELSE 0 - 5 * 3600

\* convert_utc_to_local: meaningful for a known zone; pytz.timezone raises
\* UnknownTimeZoneError otherwise (see ZoneRaises).
convert_utc_to_local(utc_timestamp, timezone_str) ==
    [utc |-> utc_timestamp, off |-> UtcOffset(timezone_str, utc_timestamp)]

ZoneRaises(timezone_str) == timezone_str \notin KnownZones

\* datetime + timedelta on an aware datetime keeps the tzinfo it has
PlusDelta(dt, d) == [utc |-> dt.utc + d, off |-> dt.off]

\* dt.time(), as seconds since local midnight
TimeOf(dt) == (dt.utc + dt.off) % DaySeconds

\* dt.weekday(), 0 = Monday
WeekdayOf(dt) == ((dt.utc + dt.off) \div DaySeconds) % 7

\* max(a, b) of two aware datetimes
MaxDt(a, b) == IF a.utc >= b.utc THEN a ELSE b

-----------------------------------------------------------------------------
(* database.py: the fetch functions *)

RECURSIVE FirstZone(_, _)
FirstZone(rows, store_id) ==
    IF rows = << >> THEN "America/Chicago"
    ELSE IF Head(rows).store_id = store_id THEN Head(rows).timezone
    ELSE FirstZone(Tail(rows), store_id)

fetch_store_timezone(store_id) == FirstZone(store_tz, store_id)

RECURSIVE DataRows(_, _, _, _)
DataRows(rows, store_id, start_time, end_time) ==
    IF rows = << >> THEN << >>
    ELSE LET r == Head(rows)
             rest == DataRows(Tail(rows), store_id, start_time, end_time)
         IN IF /\ r.store_id = store_id
               /\ r.timestamp_utc >= start_time
               /\ r.timestamp_utc < end_time
            THEN <<[timestamp_utc |-> r.timestamp_utc, status |-> r.status]>> \o rest
            ELSE rest

fetch_store_data(store_id, start_time, end_time) ==
    DataRows(store_data, store_id, start_time, end_time)

\* A Python value met by the business-hours test: a datetime.time or an int.
TimeVal(t) == [type |-> "time", val |-> t]
IntVal(n) == [type |-> "int", val |-> n]

\* SELECT * yields (store_id, dayofweek, start_time_local, end_time_local);
\* the loop stores hours[row[0]] = (row[1], row[2]), later rows overwriting.
RECURSIVE HoursDict(_, _, _)
HoursDict(rows, store_id, hours) ==
    IF rows = << >> THEN hours
    ELSE LET r == Head(rows)
         IN IF r.store_id = store_id
            THEN HoursDict(Tail(rows), store_id,
                    [k \in (DOMAIN hours) \cup {r.store_id} |->
                        IF k = r.store_id
                        THEN <<IntVal(r.dayofweek), TimeVal(r.start_time_local)>>
                        ELSE hours[k]])
            ELSE HoursDict(Tail(rows), store_id, hours)

fetch_store_hours(store_id) == HoursDict(menu_hours, store_id, << >>)

RECURSIVE StoreIdColumn(_)
StoreIdColumn(rows) ==
    IF rows = << >> THEN << >>
    ELSE <<Head(rows).store_id>> \o StoreIdColumn(Tail(rows))

fetch_store_ids == StoreIdColumn(menu_hours)

-----------------------------------------------------------------------------
(* database.py: calculate_uptime_downtime *)

\* The frame before any call.
IdleFrame ==
    [pc |-> "idle", store_id |-> 0, start_time |-> 0, end_time |-> 0,
     store_timezone |-> "", store_data |-> << >>, hours |-> << >>,
     next_start |-> [utc |-> 0, off |-> 0],
     local_end_time |-> [utc |-> 0, off |-> 0],
     hour_start_time |-> [utc |-> 0, off |-> 0],
     test |-> "none", hour_uptime |-> 0, hour_downtime |-> 0,
     uptime_minutes_hour |-> 0, downtime_minutes_hour |-> 0,
     uptime_minutes_day |-> 0, downtime_minutes_day |-> 0,
     uptime_minutes_week |-> 0, downtime_minutes_week |-> 0,
     result |-> << >>]

\* Lines 285-299 with the fetched observations given: the fetches, the two
\* conversions of the window (which raise for an unknown zone) and the counters.
EnterWith(store_id, start_time, end_time, data) ==
    LET tz == fetch_store_timezone(store_id)
        base == [IdleFrame EXCEPT !.store_id = store_id,
                                  !.start_time = start_time,
                                  !.end_time = end_time,
                                  !.store_timezone = tz,
                                  !.store_data = data,
                                  !.hours = fetch_store_hours(store_id)]
    IN IF ZoneRaises(tz)
       THEN [base EXCEPT !.pc = "raised"]
       ELSE [base EXCEPT !.pc = "loop",
                         !.next_start = convert_utc_to_local(start_time, tz),
                         !.local_end_time = convert_utc_to_local(end_time, tz)]

CalcEnter(store_id, start_time, end_time) ==
    EnterWith(store_id, start_time, end_time,
              fetch_store_data(store_id, start_time, end_time))

\* hours[hour_dow], or the KeyError branch: open 24 hours
BusinessHoursOf(hours, hour_dow) ==
    IF hour_dow \in DOMAIN hours
    THEN hours[hour_dow]
    ELSE <<TimeVal(AllDayOpen), TimeVal(AllDayClose)>>

\* The condition of lines 316-319.  `and` evaluates its right operand only when
\* the left one is true; comparing a datetime.time with an int raises TypeError.
BusinessTest(start_tod, end_tod, business_start, business_end) ==
    IF business_end.type # "time" THEN "TypeError"
    ELSE IF ~(start_tod < business_end.val) THEN "skip"
    ELSE IF business_start.type # "time" THEN "TypeError"
    ELSE IF end_tod > business_start.val THEN "overlap"
    ELSE "skip"

\* A forward fill that stops at the end of the hour: what SpanMinutes would be
\* if the span were clipped to the slice.
SpanClippedToHourEnd(data_local_timestamp, hour_start_time) ==
    (PlusDelta(hour_start_time, Delta).utc
        - MaxDt(data_local_timestamp, hour_start_time).utc) \div MinutesDivisor

\* (data_local_timestamp + delta - max(data_local_timestamp, hour_start_time))
\*   .total_seconds() / 60; every instant of the model is a whole minute, so
\* the quotient is exact.
SpanMinutes(data_local_timestamp, hour_start_time) ==
    (PlusDelta(data_local_timestamp, Delta).utc
        - MaxDt(data_local_timestamp, hour_start_time).utc) \div MinutesDivisor

\* The loop leaving at the first observation of the slice: what HourTotals
\* would be if only one observation per hour were counted.
RECURSIVE HourTotalsFirstOnly(_, _, _, _, _)
HourTotalsFirstOnly(data, timezone_str, hour_start_time, hour_end_time, acc) ==
    IF data = << >> THEN acc
    ELSE LET d == Head(data)
             local == convert_utc_to_local(d.timestamp_utc, timezone_str)
             inside == /\ local.utc >= hour_start_time.utc
                       /\ local.utc < hour_end_time.utc
             span == SpanMinutes(local, hour_start_time)
         IN IF inside /\ d.status = "active" THEN <<acc[1] + span, acc[2]>>
            ELSE IF inside /\ d.status = "inactive" THEN <<acc[1], acc[2] + span>>
            ELSE HourTotalsFirstOnly(Tail(data), timezone_str, hour_start_time,
                                     hour_end_time, acc)

\* The loop of lines 321-340 over the fetched rows, in list order:
\* <<hour_uptime, hour_downtime>> starting from acc.
RECURSIVE HourTotals(_, _, _, _, _)
HourTotals(data, timezone_str, hour_start_time, hour_end_time, acc) ==
    IF data = << >> THEN acc
    ELSE LET d == Head(data)
             local == convert_utc_to_local(d.timestamp_utc, timezone_str)
             inside == /\ local.utc >= hour_start_time.utc
                       /\ local.utc < hour_end_time.utc
             span == SpanMinutes(local, hour_start_time)
             next == IF inside /\ d.status = "active"
                       THEN <<acc[1] + span, acc[2]>>
                     ELSE IF inside /\ d.status = "inactive"
                       THEN <<acc[1], acc[2] + span>>
                     ELSE acc
         IN HourTotals(Tail(data), timezone_str, hour_start_time,
                       hour_end_time, next)

\* The dictionary of lines 366-374; day and week totals are minutes / 60.
ResultOf(f) ==
    [store_id |-> f.store_id,
     uptime_last_hour |-> f.uptime_minutes_hour,
     downtime_last_hour |-> f.downtime_minutes_hour,
     uptime_last_day |-> f.uptime_minutes_day \div MinutesDivisor,
     downtime_last_day |-> f.downtime_minutes_day \div MinutesDivisor,
     uptime_last_week |-> f.uptime_minutes_week \div MinutesDivisor,
     downtime_last_week |-> f.downtime_minutes_week \div MinutesDivisor]

\* One turn of the for loop of line 303 (time_range yields next_start while it
\* is before the end), or the return once the generator is exhausted.
CalcStep(f) ==
    IF ~(f.next_start.utc < f.local_end_time.utc)
    THEN [f EXCEPT !.pc = "done", !.result = ResultOf(f)]
    ELSE
      LET hs == f.next_start
          he == PlusDelta(hs, Delta)
          bh == BusinessHoursOf(f.hours, WeekdayOf(hs))
          test == BusinessTest(TimeOf(hs), TimeOf(he), bh[1], bh[2])
          tot == IF test = "overlap"
                 THEN HourTotals(f.store_data, f.store_timezone, hs, he, <<0, 0>>)
                 ELSE <<0, 0>>
          inDay == /\ test = "overlap"
                   /\ TimeOf(hs) >= DayWindowStart
                   /\ TimeOf(hs) < DayWindowEnd
          inWeek == test = "overlap"
      IN IF test = "TypeError"
         THEN [f EXCEPT !.pc = "raised", !.hour_start_time = hs, !.test = test,
                        !.hour_uptime = 0, !.hour_downtime = 0]
         ELSE [f EXCEPT
                 !.hour_start_time = hs,
                 !.test = test,
                 !.hour_uptime = tot[1],
                 !.hour_downtime = tot[2],
                 !.uptime_minutes_day = @ + (IF inDay THEN tot[1] ELSE 0),
                 !.downtime_minutes_day = @ + (IF inDay THEN tot[2] ELSE 0),
                 !.uptime_minutes_week = @ + (IF inWeek THEN tot[1] ELSE 0),
                 !.downtime_minutes_week = @ + (IF inWeek THEN tot[2] ELSE 0),
                 !.uptime_minutes_hour = @ + tot[1],
                 !.downtime_minutes_hour = @ + tot[2],
                 !.next_start = PlusDelta(hs, Delta)]

\* At most n turns of the loop from the frame f, stopping at the return or
\* the exception.  The turns are halved rather than chained so that a window
\* of a week (168 turns) is evaluated at a shallow depth.
RECURSIVE RunSteps(_, _)
RunSteps(f, n) ==
    IF f.pc # "loop" \/ n = 0 THEN f
    ELSE IF n = 1 THEN CalcStep(f)
    ELSE LET g == RunSteps(f, n \div 2)
         IN IF g.pc # "loop" THEN g ELSE RunSteps(g, n - (n \div 2))

\* The turns left in a frame: the slices time_range still yields, and the return.
TurnsLeft(f) ==
    IF f.pc # "loop" \/ ~(f.next_start.utc < f.local_end_time.utc)
    THEN 1
    ELSE ((f.local_end_time.utc - f.next_start.utc + Delta - 1) \div Delta) + 1

\* The whole call, run from a frame to its return or its exception.
RunCalc(f) == RunSteps(f, TurnsLeft(f))

calculate_uptime_downtime(store_id, start_time, end_time) ==
    RunCalc(CalcEnter(store_id, start_time, end_time))

-----------------------------------------------------------------------------
(* Inputs of the model *)

StoreIds == {1, 10}
Statuses == {"active", "inactive"}

BoundedSeq(S, n) == UNION {[1..k -> S] : k \in 0..n}

MenuRow(s, d, open, close) ==
    [store_id |-> s, dayofweek |-> d,
     start_time_local |-> open, end_time_local |-> close]

NineToFive(s, d) == MenuRow(s, d, 9 * 3600, 17 * 3600)

MenuTables ==
    { << >>,
      <<NineToFive(10, 0)>>,
      <<NineToFive(10, 0), NineToFive(10, 1)>>,
      <<NineToFive(1, 0), NineToFive(10, 0)>> }

ZoneRow(s, z) == [store_id |-> s, timezone |-> z]

ZoneTables ==
    { << >>,
      <<ZoneRow(10, "UTC"), ZoneRow(1, "UTC")>>,
      <<ZoneRow(10, "Asia/Kolkata"), ZoneRow(1, "Mars/Olympus")>> }

ObsTimes == {At(0, 8, 30), At(0, 9, 55), At(0, 23, 10), At(0, 23, 25)}

ObsRows ==
    [store_id : {10}, status : Statuses, timestamp_utc : ObsTimes]
        \cup {[store_id |-> 1, status |-> "active", timestamp_utc |-> At(0, 8, 30)],
              [store_id |-> 10, status |-> "paused", timestamp_utc |-> At(0, 9, 55)]}

WindowStarts == {At(0, 8, 0), At(0, 22, 30), At(0, 23, 0)}

WindowLengths == {n * HalfHour : n \in 1..MaxHalfHours}

NoJobs == << >>

\* No temporary table in the session.
NoTmp == [exists |-> FALSE, rows |-> << >>]

-----------------------------------------------------------------------------
(* The estimator alone: one call of calculate_uptime_downtime on a database *)

InitCalc ==
    /\ menu_hours \in MenuTables
    /\ store_tz \in ZoneTables
    /\ store_data \in BoundedSeq(ObsRows, MaxObs)
    /\ reports = << >>
    /\ calc = IdleFrame
    /\ jobs = NoJobs
    /\ files = << >>
    /\ returned = {}
    /\ answers = << >>
    /\ store_status_csv = << >>
    /\ tmp_store_data = NoTmp
    /\ init_db_pc = "not called"

\* The call: lines 285-299.
CalcCall ==
    /\ calc.pc = "idle"
    /\ \E s \in StoreIds, t \in WindowStarts, n \in WindowLengths :
          calc' = CalcEnter(s, t, t + n)
    /\ UNCHANGED <<dbVars, jobVars, csvVars>>

\* One hour slice: lines 303-356.
CalcSlice ==
    /\ calc.pc = "loop"
    /\ calc.next_start.utc < calc.local_end_time.utc
    /\ calc' = CalcStep(calc)
    /\ UNCHANGED <<dbVars, jobVars, csvVars>>

\* The return: lines 358-374.
CalcReturn ==
    /\ calc.pc = "loop"
    /\ ~(calc.next_start.utc < calc.local_end_time.utc)
    /\ calc' = CalcStep(calc)
    /\ UNCHANGED <<dbVars, jobVars, csvVars>>

NextCalc == CalcCall \/ CalcSlice \/ CalcReturn

SpecCalc == InitCalc /\ [][NextCalc]_vars

-----------------------------------------------------------------------------
(* Properties of the estimator *)

\* A slice has been walked and the frame's hour_* fields describe it.
SliceWalked == calc.test \in {"overlap", "skip"}

\* The six running totals of the frame.
Totals(f) ==
    <<f.uptime_minutes_hour, f.downtime_minutes_hour,
      f.uptime_minutes_day, f.downtime_minutes_day,
      f.uptime_minutes_week, f.downtime_minutes_week>>

\* The rows menu_hours stores for a store on a weekday.
StoredHours(store_id, dow) ==
    {menu_hours[i] : i \in {j \in DOMAIN menu_hours :
        /\ menu_hours[j].store_id = store_id
        /\ menu_hours[j].dayofweek = dow}}

\* The slice starting at hs lies outside the stored (open, close) of its weekday.
OutsideStoredHours(store_id, hs) ==
    /\ StoredHours(store_id, WeekdayOf(hs)) # {}
    /\ \A r \in StoredHours(store_id, WeekdayOf(hs)) :
          ~(/\ TimeOf(hs) < r.end_time_local
            /\ TimeOf(PlusDelta(hs, Delta)) > r.start_time_local)

\* The fetched observations inside the slice starting at hs, with a status.
InSlice(f, hs, status) ==
    {i \in DOMAIN f.store_data :
        /\ f.store_data[i].timestamp_utc >= hs.utc
        /\ f.store_data[i].timestamp_utc < hs.utc + Delta
        /\ f.store_data[i].status = status}

\* C1: a slice that does not overlap the business hours stored for the store
\* on the weekday of its local start adds nothing to any of the six totals.
C1_SliceOutsideStoredHoursAddsNothing ==
    [][(/\ calc.pc = "loop"
        /\ calc.next_start.utc < calc.local_end_time.utc
        /\ OutsideStoredHours(calc.store_id, calc.next_start))
          => Totals(calc') = Totals(calc)]_vars

\* C2: for a store with no business-hours row on the weekday of a slice's
\* local start, the slice passes the business-hours test.
C2_NoHoursRowMeansSliceCounted ==
    (/\ calc.test # "none"
     /\ StoredHours(calc.store_id, WeekdayOf(calc.hour_start_time)) = {})
        => calc.test = "overlap"

\* The slice just walked holds exactly one observation, 5 minutes before its end.
OnlyObsFiveBeforeEnd(status) ==
    /\ calc.test = "overlap"
    /\ Cardinality(InSlice(calc, calc.hour_start_time, "active")
                   \cup InSlice(calc, calc.hour_start_time, "inactive")) = 1
    /\ \E i \in InSlice(calc, calc.hour_start_time, status) :
          calc.store_data[i].timestamp_utc
              = calc.hour_start_time.utc + Delta - 5 * 60

\* C3 as stated: an observation 5 minutes before the end of its slice adds 65
\* minutes to the accumulator of its status.
C3_FiveBeforeEndAdds65 ==
    /\ OnlyObsFiveBeforeEnd("active") => calc.hour_uptime = 65
    /\ OnlyObsFiveBeforeEnd("inactive") => calc.hour_downtime = 65

\* C3 amended: in a slice that passes the business-hours test every
\* observation inside the slice, one 5 minutes before its end included, adds
\* 60 minutes to the accumulator of its status.
C3_EveryObsAdds60 ==
    calc.test = "overlap" =>
        /\ calc.hour_uptime
              = 60 * Cardinality(InSlice(calc, calc.hour_start_time, "active"))
        /\ calc.hour_downtime
              = 60 * Cardinality(InSlice(calc, calc.hour_start_time, "inactive"))

C3_Witness ==
    /\ OnlyObsFiveBeforeEnd("active")
    /\ calc.hour_uptime = 60
    /\ calc.hour_downtime = 0

\* The fetched observations of the trailing hour [end_time - 1h, end_time).
RECURSIVE TrailingHourOnly(_, _)
TrailingHourOnly(data, end_time) ==
    IF data = << >> THEN << >>
    ELSE IF Head(data).timestamp_utc >= end_time - Delta
         THEN <<Head(data)>> \o TrailingHourOnly(Tail(data), end_time)
         ELSE TrailingHourOnly(Tail(data), end_time)

\* C4: for a window longer than one hour the last-hour values are those of
\* the observations of the trailing hour alone.
C4_LastHourCountsTrailingHourOnly ==
    (calc.pc = "done" /\ calc.end_time - calc.start_time > Delta) =>
        LET alone == RunCalc(EnterWith(calc.store_id, calc.start_time,
                        calc.end_time,
                        TrailingHourOnly(calc.store_data, calc.end_time)))
        IN /\ calc.result.uptime_last_hour = alone.result.uptime_last_hour
           /\ calc.result.downtime_last_hour = alone.result.downtime_last_hour

\* The orders in which a list of n rows can be visited.
Orders(n) == {p \in [1..n -> 1..n] : \A i, j \in 1..n : p[i] = p[j] => i = j}

Reordered(data, p) == [i \in DOMAIN data |-> data[p[i]]]

\* C10: every order of the fetched observations gives the same outcome: the
\* same six values, or the same exception.
C10_OrderOfObservationsIrrelevant ==
    calc.pc \in {"done", "raised"} =>
        \A p \in Orders(Len(calc.store_data)) :
            LET other == RunCalc(EnterWith(calc.store_id, calc.start_time,
                            calc.end_time, Reordered(calc.store_data, p)))
            IN /\ other.pc = calc.pc
               /\ other.result = calc.result

C10_Witness ==
    /\ calc.pc = "done"
    /\ Len(calc.store_data) >= 2
    /\ calc.store_data[1].status # calc.store_data[2].status
    /\ calc.store_data[1].timestamp_utc > calc.store_data[2].timestamp_utc
    /\ calc.result.uptime_last_hour = 60
    /\ calc.result.downtime_last_hour = 60

-----------------------------------------------------------------------------
(* routes.py, report.py, database.py: the report job *)

ReportIds == {"id-1", "id-2"}

\* The instants datetime.utcnow() returns while a report is generated.
Nows == {At(1, 0, 30)}

\* join("reports", "report_<now>.csv"): one name per second of the clock.
ReportName(now) == <<"reports", now>>

NoJob ==
    [pc |-> "none", stores |-> << >>, i |-> 0, report_data |-> << >>,
     report_name |-> << >>, error |-> "none"]

\* SELECT status FROM reports WHERE report_id = ...; None when no row matches,
\* else the status of the first row.
RECURSIVE FirstStatus(_, _)
FirstStatus(rows, report_id) ==
    IF rows = << >> THEN "None"
    ELSE IF Head(rows).report_id = report_id THEN Head(rows).status
    ELSE FirstStatus(Tail(rows), report_id)

get_report_status(report_id) == FirstStatus(reports, report_id)

\* UPDATE reports SET status = ... WHERE report_id = ...
UpdateReports(rows, report_id, status) ==
    [k \in DOMAIN rows |->
        IF rows[k].report_id = report_id
        THEN [rows[k] EXCEPT !.status = status]
        ELSE rows[k]]

\* trigger_report: a fresh uuid4, the task is queued and the id is returned;
\* the task runs after the response has been sent.
TriggerReport(r) ==
    /\ jobs[r].pc = "none"
    /\ jobs' = [jobs EXCEPT ![r].pc = "queued"]
    /\ returned' = returned \cup {r}
    /\ UNCHANGED <<dbVars, calc, files, answers, csvVars>>

\* report.generate_report, lines 29-36: the row is inserted and committed.
InsertRunning(r) ==
    /\ jobs[r].pc = "queued"
    /\ reports' = Append(reports, [report_id |-> r, status |-> "Running"])
    /\ jobs' = [jobs EXCEPT ![r].pc = "inserted"]
    /\ UNCHANGED <<menu_hours, store_tz, store_data, calc, files, returned,
                   answers, csvVars>>

\* database.generate_report, lines 386-389.
FetchStores(r) ==
    /\ jobs[r].pc = "inserted"
    /\ jobs' = [jobs EXCEPT ![r].pc = "computing",
                            ![r].stores = fetch_store_ids,
                            ![r].i = 1,
                            ![r].report_data = << >>]
    /\ UNCHANGED <<dbVars, calc, files, returned, answers, csvVars>>

\* The exception a finished frame stands for.
ErrorOf(f) ==
    IF ZoneRaises(f.store_timezone) THEN "UnknownTimeZoneError" ELSE "TypeError"

\* One turn of the loop of lines 390-398; an exception of the call is caught
\* nowhere and ends the task.
ComputeStore(r) ==
    /\ jobs[r].pc = "computing"
    /\ jobs[r].i <= Len(jobs[r].stores)
    /\ \E now \in Nows :
         LET f == calculate_uptime_downtime(jobs[r].stores[jobs[r].i],
                                            now - OneWeek, now)
         IN jobs' = IF f.pc = "raised"
                    THEN [jobs EXCEPT ![r].pc = "failed", ![r].error = ErrorOf(f)]
                    ELSE [jobs EXCEPT
                            ![r].report_data = Append(@, f.result),
                            ![r].i = @ + 1]
    /\ UNCHANGED <<dbVars, calc, files, returned, answers, csvVars>>

\* Lines 402-422: the file is opened for writing, which fails when the
\* directory is missing or the disk refuses, and the rows are written.
WriteReport(r) ==
    /\ jobs[r].pc = "computing"
    /\ jobs[r].i > Len(jobs[r].stores)
    /\ \E now \in Nows, ok \in BOOLEAN :
         IF ok
         THEN /\ files' = [n \in (DOMAIN files) \cup {ReportName(now)} |->
                              IF n = ReportName(now) THEN jobs[r].report_data
                              ELSE files[n]]
              /\ jobs' = [jobs EXCEPT ![r].pc = "written",
                                      ![r].report_name = ReportName(now)]
         ELSE /\ files' = files
              /\ jobs' = [jobs EXCEPT ![r].pc = "failed", ![r].error = "OSError"]
    /\ UNCHANGED <<dbVars, calc, returned, answers, csvVars>>

\* Lines 426-433: the status becomes the report's path, unless the statement
\* fails.
UpdateStatus(r) ==
    /\ jobs[r].pc = "written"
    /\ \E ok \in BOOLEAN :
         IF ok
         THEN /\ reports' = UpdateReports(reports, r, jobs[r].report_name)
              /\ jobs' = [jobs EXCEPT ![r].pc = "done"]
         ELSE /\ reports' = reports
              /\ jobs' = [jobs EXCEPT ![r].pc = "failed",
                                      ![r].error = "DatabaseError"]
    /\ UNCHANGED <<menu_hours, store_tz, store_data, calc, files, returned,
                   answers, csvVars>>

\* get_report: "Report not found" for no status, "Running", or the file.
get_report(report_id) ==
    LET status == get_report_status(report_id)
    IN IF status = "None" THEN "Report not found"
       ELSE IF status = "Running" THEN "Running"
       ELSE status

GetReport(r) ==
    /\ answers' = [answers EXCEPT ![r] = get_report(r)]
    /\ UNCHANGED <<dbVars, calc, jobs, files, returned, csvVars>>

\* The databases a report is generated on: no store, one store with one or two
\* weekday rows, and two stores of which store 1 comes second.
ReportDatabases ==
    { <<m, z, d>> :
        m \in { << >>,
                <<NineToFive(10, 0)>>,
                <<NineToFive(10, 0), NineToFive(10, 1)>>,
                <<NineToFive(10, 0), NineToFive(1, 0)>> },
        z \in ZoneTables,
        d \in { << >>,
                <<[store_id |-> 10, status |-> "active",
                   timestamp_utc |-> At(0, 9, 55)]>> } }

InitReport ==
    /\ \E db \in ReportDatabases :
          /\ menu_hours = db[1]
          /\ store_tz = db[2]
          /\ store_data = db[3]
    /\ reports = << >>
    /\ calc = IdleFrame
    /\ jobs = [r \in ReportIds |-> NoJob]
    /\ files = << >>
    /\ returned = {}
    /\ answers = [r \in ReportIds |-> "no answer yet"]
    /\ store_status_csv = << >>
    /\ tmp_store_data = NoTmp
    /\ init_db_pc = "not called"

NextReport ==
    \E r \in ReportIds :
        \/ TriggerReport(r)
        \/ InsertRunning(r)
        \/ FetchStores(r)
        \/ ComputeStore(r)
        \/ WriteReport(r)
        \/ UpdateStatus(r)
        \/ GetReport(r)

SpecReport == InitReport /\ [][NextReport]_vars

-----------------------------------------------------------------------------
(* Properties of the report job *)

\* C5: a report job that failed does not keep the status "Running".
C5_FailedJobNotLeftRunning ==
    \A r \in ReportIds :
        jobs[r].pc = "failed" => get_report_status(r) # "Running"

\* C6: an exception of one store's computation does not end the report job.
C6_StoreFailureDoesNotAbortReport ==
    \A r \in ReportIds :
        ~(/\ jobs[r].pc = "failed"
          /\ jobs[r].error \in {"TypeError", "UnknownTimeZoneError"})

\* C7: the written report holds exactly one row for every store id that
\* fetch_store_ids yielded.
C7_OneRowPerStore ==
    \A r \in ReportIds :
        jobs[r].pc \in {"written", "done"} =>
            LET rows == files[jobs[r].report_name]
            IN \A k \in DOMAIN jobs[r].stores :
                  Cardinality({n \in DOMAIN rows :
                      rows[n].store_id = jobs[r].stores[k]}) = 1

\* C8: once trigger_report has returned an id, get_report never answers
\* "Report not found" for it.
C8_ReturnedIdAlwaysFound ==
    \A r \in returned : answers[r] # "Report not found"

-----------------------------------------------------------------------------
(* database.py: update_db, run by the hourly sync_data *)

MaxCsvRows == 2    \* rows of one delivery of "store status.csv"

CsvRows ==
    [store_id : {10}, status : Statuses, timestamp_utc : {At(0, 8, 30)}]
        \cup {[store_id |-> 1, status |-> "active", timestamp_utc |-> At(0, 9, 55)]}

\* The producer of "store status.csv" delivers a file, possibly the same again.
DeliverCsv ==
    /\ store_status_csv' \in BoundedSeq(CsvRows, MaxCsvRows)
    /\ UNCHANGED <<dbVars, calc, jobVars, tmp_store_data, init_db_pc>>

\* Lines 113-131: the temporary table is created, the file is copied into it
\* and the transaction is committed.
UpdateDbCopy ==
    /\ ~tmp_store_data.exists
    /\ tmp_store_data' = [exists |-> TRUE, rows |-> store_status_csv]
    /\ UNCHANGED <<dbVars, calc, jobVars, store_status_csv, init_db_pc>>

\* The rows of tmp that NOT EXISTS keeps: the subquery reads store_data as it
\* was when the statement began.
RECURSIVE RowsNotIn(_, _)
RowsNotIn(tmp, table) ==
    IF tmp = << >> THEN << >>
    ELSE IF \E k \in DOMAIN table :
               /\ table[k].store_id = Head(tmp).store_id
               /\ table[k].timestamp_utc = Head(tmp).timestamp_utc
               /\ table[k].status = Head(tmp).status
         THEN RowsNotIn(Tail(tmp), table)
         ELSE <<Head(tmp)>> \o RowsNotIn(Tail(tmp), table)

\* Lines 134-146: INSERT ... SELECT ... WHERE NOT EXISTS, DROP TABLE, commit.
UpdateDbMerge ==
    /\ tmp_store_data.exists
    /\ store_data' = store_data \o RowsNotIn(tmp_store_data.rows, store_data)
    /\ tmp_store_data' = NoTmp
    /\ UNCHANGED <<menu_hours, store_tz, reports, calc, jobVars,
                   store_status_csv, init_db_pc>>

InitDb ==
    /\ menu_hours = << >>
    /\ store_tz = << >>
    /\ store_data = << >>
    /\ reports = << >>
    /\ calc = IdleFrame
    /\ jobs = NoJobs
    /\ files = << >>
    /\ returned = {}
    /\ answers = << >>
    /\ store_status_csv = << >>
    /\ tmp_store_data = NoTmp
    /\ init_db_pc = "not called"

NextDb == DeliverCsv \/ UpdateDbCopy \/ UpdateDbMerge

SpecDb == InitDb /\ [][NextDb]_vars

\* store_data holds no (store_id, timestamp_utc, status) triple twice.
NoDuplicateTriples ==
    \A i, j \in DOMAIN store_data :
        (/\ store_data[i].store_id = store_data[j].store_id
         /\ store_data[i].timestamp_utc = store_data[j].timestamp_utc
         /\ store_data[i].status = store_data[j].status) => i = j

\* Every row of the temporary table is in store_data already.
AlreadyMerged ==
    \A k \in DOMAIN tmp_store_data.rows :
        \E n \in DOMAIN store_data : store_data[n] = tmp_store_data.rows[k]

\* C9: after any sequence of update_db runs store_data holds no triple twice,
\* and a run over content already merged leaves store_data unchanged.
C9_MergeIsDeduplicatedAndIdempotent ==
    /\ []NoDuplicateTriples
    /\ [][(tmp_store_data.exists /\ AlreadyMerged)
            => store_data' = store_data]_vars

-----------------------------------------------------------------------------
(* database.py: init_db, called once at startup *)

\* The rows of "Menu hours.csv" and of "bq.csv".
MenuHoursCsv == <<NineToFive(10, 0), NineToFive(10, 1)>>
BqCsv == <<ZoneRow(10, "America/Chicago")>>

\* cur.fetchone() of SELECT CASE WHEN EXISTS (SELECT * FROM t LIMIT 1)
\* THEN 1 ELSE 0 END: a row of one column, (1,) or (0,).
ExistsRow(table) == <<IF table # << >> THEN 1 ELSE 0>>

\* The truth value Python gives a tuple: true unless it is empty.
Truthy(row) == row # << >>

\* Lines 56-105 with the three files readable: where the call ends and the
\* tables it leaves.  update_db is the merge of "store status.csv".
InitDbOutcome ==
    LET menu_hour_exists == ExistsRow(menu_hours)
        store_tz_exists == ExistsRow(store_tz)
        store_data_exists == ExistsRow(store_data)
    IN IF /\ Truthy(menu_hour_exists)
          /\ Truthy(store_tz_exists)
          /\ Truthy(store_data_exists)
       THEN [pc |-> "returned early", menu_hours |-> menu_hours,
             store_tz |-> store_tz, store_data |-> store_data]
       ELSE [pc |-> "loaded",
             menu_hours |-> IF ~Truthy(menu_hour_exists)
                            THEN menu_hours \o MenuHoursCsv ELSE menu_hours,
             store_tz |-> IF ~Truthy(store_tz_exists)
                          THEN store_tz \o BqCsv ELSE store_tz,
             store_data |-> IF ~Truthy(store_data_exists)
                            THEN store_data
                                   \o RowsNotIn(store_status_csv, store_data)
                            ELSE store_data]

CallInitDb ==
    /\ init_db_pc = "not called"
    /\ init_db_pc' = InitDbOutcome.pc
    /\ menu_hours' = InitDbOutcome.menu_hours
    /\ store_tz' = InitDbOutcome.store_tz
    /\ store_data' = InitDbOutcome.store_data
    /\ UNCHANGED <<reports, calc, jobVars, store_status_csv, tmp_store_data>>

\* The database the service starts on: each table empty or holding rows, and
\* a readable "store status.csv" with at least one row.
InitStartup ==
    /\ menu_hours \in {<< >>, <<NineToFive(10, 0)>>}
    /\ store_tz \in {<< >>, <<ZoneRow(10, "UTC")>>}
    /\ store_data \in BoundedSeq(CsvRows, 1)
    /\ reports = << >>
    /\ calc = IdleFrame
    /\ jobs = NoJobs
    /\ files = << >>
    /\ returned = {}
    /\ answers = << >>
    /\ store_status_csv \in BoundedSeq(CsvRows, 1) \ {<< >>}
    /\ tmp_store_data = NoTmp
    /\ init_db_pc = "not called"

\* init_db at startup, then the merges of sync_data.
NextStartup ==
    \/ CallInitDb
    \/ (init_db_pc # "not called" /\ NextDb)

SpecStartup == InitStartup /\ [][NextStartup]_vars

AllTablesHoldData ==
    /\ menu_hours # << >>
    /\ store_tz # << >>
    /\ store_data # << >>

\* C11: init_db returns early only when menu_hours, store_tz and store_data
\* all hold data, and with readable files it leaves all three tables
\* non-empty, an empty database included.
C11_InitDbLoadsEveryEmptyTable ==
    /\ init_db_pc = "returned early" => AllTablesHoldData
    /\ init_db_pc # "not called" => AllTablesHoldData

====
